---- MODULE Spec2Model ----
(***************************************************************************)
(* Job runner (app/main.py: run_job) and the two daily-feature jobs        *)
(* (jobs/daily_features_tlc.py, jobs/daily_features_tlc_medium.py) with    *)
(* the storage helpers they call (app/libs/s3_io.py, app/libs/ddb.py).     *)
(*                                                                         *)
(* The object store is a set of objects [key, body]; the key-value table   *)
(* is a set of items whose primary key is (customer_id, date), as the      *)
(* table is declared in cdk/sanders_customer_platform_stack.py.            *)
(* Strings read character by character (SCHEDULED_TIME) are tuples of      *)
(* one-character strings; strings that are only built are TLA+ strings.    *)
(***************************************************************************)
EXTENDS Integers, Sequences, FiniteSets, TLC

(* ------------------------------ bounds -------------------------------- *)

\* Longest raw partition (number of trip rows in the parquet file).
MaxRows == 2

\* Number of times the wall clock may pass midnight UTC.
MaxTicks == 1

\* Number of invocations of run_job in one behaviour.
MaxRuns == 2

\* Fractional digits kept when a float is printed (repr keeps up to 17
\* significant digits; the model keeps this many after the point).
DecDigits == 2

(* ----------------------------- constants ------------------------------ *)

\* SQL NULL / Python None in a column of strings.
NULL == "NULL"

\* No value, where the value would be a number or a tuple of numbers.
None == <<>>

\* LIMIT of the medium job's view.
MediumLimit == 1000

Procs == {1, 2}

BaseJob == "jobs/daily_features_tlc.py"

MediumJob == "jobs/daily_features_tlc_medium.py"

\* The exception class run_job treats as success.
NoWorkFound == "NoWorkFound"

(* ------------------------------- state -------------------------------- *)

VARIABLES
    clock,      \* how often the wall clock has passed midnight UTC
    raw,        \* the raw partition TLC_DATA_PATH names
    s3,         \* the bucket: a set of objects [key, body]
    ddb,        \* the daily-features table: a set of items
    runs,       \* invocations of run_job so far
    pc,         \* per process: where its invocation stands
    module,     \* per process: the job module it was given
    sched,      \* per process: its SCHEDULED_TIME
    date,       \* per process: the date main() resolved
    features,   \* per process: the rows of the aggregation, in result order
    done,       \* per process: upserts applied by this invocation
    writes,     \* per process: store writes of this invocation, in order
    called,     \* per process: module.main() was called
    thrown,     \* per process: the exception that left main() ("" for none)
    logged,     \* per process: the line run_job logged at the end
    raised,     \* per process: the exception that left run_job
    completed,  \* what each successful feature run left in the stores
    aborted,    \* feature runs that were killed or failed, and where
    last_put    \* per snapshot key: the process whose write came last

vars == <<clock, raw, s3, ddb, runs, pc, module, sched, date, features,
          done, writes, called, thrown, logged, raised, completed, aborted,
          last_put>>

(* ------------------------- dates and the clock ------------------------ *)

Digits == <<"0", "1", "2", "3", "4", "5", "6", "7", "8", "9">>

IsDigit(c) == \E i \in 1..10 : Digits[i] = c

DigitVal(c) == (CHOOSE i \in 1..10 : Digits[i] = c) - 1

\* Value of the decimal numeral s[from..to]; -1 when a character is no digit.
RECURSIVE NumAt(_, _, _)
NumAt(s, from, to) ==
    IF from > to THEN 0
    ELSE IF ~IsDigit(s[to]) THEN -1
    ELSE LET hi == NumAt(s, from, to - 1)
         IN  IF hi < 0 THEN -1 ELSE 10 * hi + DigitVal(s[to])

\* str.replace("Z", "+00:00"): every Z of the string is replaced.
RECURSIVE ReplaceZ(_)
ReplaceZ(s) ==
    IF s = <<>> THEN <<>>
    ELSE (IF Head(s) = "Z" THEN <<"+", "0", "0", ":", "0", "0">> ELSE <<Head(s)>>)
         \o ReplaceZ(Tail(s))

IsLeap(y) == (y % 4 = 0 /\ y % 100 # 0) \/ y % 400 = 0

DaysInMonth(y, m) ==
    IF m = 2 THEN (IF IsLeap(y) THEN 29 ELSE 28)
    ELSE IF m \in {4, 6, 9, 11} THEN 30 ELSE 31

ValidDate(y, m, d) == y >= 1 /\ m \in 1..12 /\ d \in 1..DaysInMonth(y, m)

\* HH:MM:SS at s[i..i+7], or the shorter HH:MM and HH.
TimeOk(s, i, n) ==
    /\ n \in {2, 5, 8}
    /\ NumAt(s, i, i + 1) \in 0..23
    /\ n >= 5 => s[i + 2] = ":" /\ NumAt(s, i + 3, i + 4) \in 0..59
    /\ n >= 8 => s[i + 5] = ":" /\ NumAt(s, i + 6, i + 7) \in 0..59

\* +HH:MM or -HH:MM at s[i..i+5].
OffsetOk(s, i) ==
    /\ s[i] \in {"+", "-"}
    /\ NumAt(s, i + 1, i + 2) \in 0..23
    /\ s[i + 3] = ":"
    /\ NumAt(s, i + 4, i + 5) \in 0..59

\* Position of the first + or - at or after i; 0 when there is none.
RECURSIVE SignAt(_, _)
SignAt(s, i) ==
    IF i > Len(s) THEN 0
    ELSE IF s[i] \in {"+", "-"} THEN i ELSE SignAt(s, i + 1)

\* datetime.fromisoformat: YYYY-MM-DD[*HH[:MM[:SS]][+HH:MM]]. The result is
\* the date part <<y, m, d>>, or None where Python raises ValueError.
FromIsoFormat(s) ==
    IF Len(s) < 10 \/ s[5] # "-" \/ s[8] # "-" THEN None
    ELSE LET y == NumAt(s, 1, 4)
             m == NumAt(s, 6, 7)
             d == NumAt(s, 9, 10)
             z == SignAt(s, 12)
             tEnd == IF z = 0 THEN Len(s) ELSE z - 1
         IN  IF y < 0 \/ m < 0 \/ d < 0 THEN None
             ELSE IF ~ValidDate(y, m, d) THEN None
             ELSE IF Len(s) = 10 THEN <<y, m, d>>
             ELSE IF Len(s) = 11 THEN None
             ELSE IF ~TimeOk(s, 12, tEnd - 11) THEN None
             ELSE IF z # 0 /\ (Len(s) # z + 5 \/ ~OffsetOk(s, z)) THEN None
             ELSE <<y, m, d>>

Pad2(n) == Digits[(n \div 10) + 1] \o Digits[(n % 10) + 1]

Pad4(n) == Pad2(n \div 100) \o Pad2(n % 100)

\* date.isoformat() and strftime("%Y-%m-%d").
IsoFormat(d) == Pad4(d[1]) \o "-" \o Pad2(d[2]) \o "-" \o Pad2(d[3])

\* The day after d.
NextDay(d) ==
    IF d[3] < DaysInMonth(d[1], d[2]) THEN <<d[1], d[2], d[3] + 1>>
    ELSE IF d[2] < 12 THEN <<d[1], d[2] + 1, 1>>
    ELSE <<d[1] + 1, 1, 1>>

\* The UTC calendar date at the first state of a behaviour.
StartDay == <<2026, 2, 4>>

RECURSIVE DayAfter(_, _)
DayAfter(d, k) == IF k = 0 THEN d ELSE DayAfter(NextDay(d), k - 1)

\* datetime.utcnow().date() when the clock has passed midnight k times.
UtcToday(k) == DayAfter(StartDay, k)

(* ---------------------- values of SCHEDULED_TIME ---------------------- *)

TsEmpty == <<>>

TsZ == <<"2", "0", "2", "6", "-", "0", "2", "-", "0", "4", "T",
         "0", "1", ":", "2", "3", ":", "4", "5", "Z">>

TsDateOnly == <<"2", "0", "2", "6", "-", "0", "2", "-", "0", "5">>

TsBadDay == <<"2", "0", "2", "6", "-", "0", "2", "-", "3", "0", "T",
              "0", "0", ":", "0", "0", ":", "0", "0", "Z">>

TsGarbage == <<"t", "o", "m", "o", "r", "r", "o", "w">>

ScheduledTimes == {TsEmpty, TsZ, TsDateOnly, TsBadDay, TsGarbage}

\* _scheduled_date(): the date of SCHEDULED_TIME when it parses, else today.
ScheduledDate(st, k) ==
    LET parsed == IF st # <<>> THEN FromIsoFormat(ReplaceZ(st)) ELSE None
    IN  IF parsed # None THEN IsoFormat(parsed) ELSE IsoFormat(UtcToday(k))

\* The date a job's main() works on: the base job resolves SCHEDULED_TIME,
\* the medium job formats utcnow().
JobDate(job, st, k) ==
    IF job = BaseJob THEN ScheduledDate(st, k) ELSE IsoFormat(UtcToday(k))

(* --------------------------- raw partition ---------------------------- *)

\* The rows a file may hold, in a fixed order.
RawRows ==
    << [VendorID |-> None,  fare_amount |-> 10, total_amount |-> 12, trip_distance |-> 1],
       [VendorID |-> None,  fare_amount |-> 25, total_amount |-> 31, trip_distance |-> 4],
       [VendorID |-> <<1>>, fare_amount |-> 10, total_amount |-> 12, trip_distance |-> 1],
       [VendorID |-> <<1>>, fare_amount |-> 25, total_amount |-> 31, trip_distance |-> 4],
       [VendorID |-> <<2>>, fare_amount |-> 10, total_amount |-> 12, trip_distance |-> 1],
       [VendorID |-> <<2>>, fare_amount |-> 25, total_amount |-> 31, trip_distance |-> 4] >>

\* Every parquet file of at most MaxRows rows. The query result does not
\* depend on the order of the rows of a file shorter than the LIMIT, so one
\* file stands for the files that hold the same rows in another order.
RawPartitions ==
    { [i \in 1..Len(c) |-> RawRows[c[i]]] :
        c \in { d \in UNION { [1..n -> 1..Len(RawRows)] : n \in 0..MaxRows } :
                  \A i \in 1..Len(d) - 1 : d[i] <= d[i + 1] } }

(* ---------------------------- aggregation ----------------------------- *)

\* The decimal numeral of a natural number.
RECURSIVE NatStr(_)
NatStr(n) == IF n < 10 THEN Digits[n + 1] ELSE NatStr(n \div 10) \o Digits[(n % 10) + 1]

\* CAST(VendorID AS VARCHAR): NULL stays NULL.
CastVarchar(v) == IF v = None THEN NULL ELSE NatStr(v[1])

RECURSIVE Gcd(_, _)
Gcd(a, b) == IF b = 0 THEN a ELSE Gcd(b, a % b)

\* A float, kept as the fraction it stands for, in lowest terms.
Float(n, d) == LET g == Gcd(n, d) IN [num |-> n \div g, den |-> d \div g]

RECURSIVE SumOver(_, _, _)
SumOver(rows, idx, col) ==
    IF idx = {} THEN 0
    ELSE LET i == CHOOSE j \in idx : TRUE
         IN  rows[i][col] + SumOver(rows, idx \ {i}, col)

\* AVG(col) over the rows at the positions idx (idx is not empty).
Avg(rows, idx, col) == Float(SumOver(rows, idx, col), Cardinality(idx))

\* The view "trips": the whole file, or its first 1000 rows.
TripsView(job, rows) ==
    IF job = MediumJob /\ Len(rows) > MediumLimit
    THEN SubSeq(rows, 1, MediumLimit) ELSE rows

\* The column the job averages as avg_fare_1d.
FareColumn(job) == IF job = BaseJob THEN "fare_amount" ELSE "total_amount"

\* A query without the WHERE clause: every row reaches the GROUP BY.
InputPositions_NoFilter(job, view) == 1..Len(view)

\* The rows the GROUP BY sees: the base job filters VendorID IS NOT NULL.
InputPositions(job, view) ==
    { i \in 1..Len(view) : job = BaseJob => view[i].VendorID # None }

\* A query without the GROUP BY: one row of the result per input row.
FeatureRows_PerRow(job, rows) ==
    LET view == TripsView(job, rows)
    IN  { [customer_id     |-> CastVarchar(view[i].VendorID),
           trip_count_1d   |-> 1,
           avg_fare_1d     |-> Avg(view, {i}, FareColumn(job)),
           avg_distance_1d |-> Avg(view, {i}, "trip_distance")] :
          i \in InputPositions(job, view) }

\* The result of the aggregation query, one row per group, as a set.
FeatureRows(job, rows) ==
    LET view == TripsView(job, rows)
        pos  == InputPositions(job, view)
        keys == { view[i].VendorID : i \in pos }
        grp(v) == { i \in pos : view[i].VendorID = v }
    IN  { [customer_id     |-> CastVarchar(v),
           trip_count_1d   |-> Cardinality(grp(v)),
           avg_fare_1d     |-> Avg(view, grp(v), FareColumn(job)),
           avg_distance_1d |-> Avg(view, grp(v), "trip_distance")] : v \in keys }

\* Every order in which the engine may return the rows of S.
Orders(S) ==
    { f \in [1..Cardinality(S) -> S] : \A i, j \in 1..Cardinality(S) : f[i] = f[j] => i = j }

(* ------------------- str(), Decimal() and the items ------------------- *)

RECURSIVE Pow10(_)
Pow10(n) == IF n = 0 THEN 1 ELSE 10 * Pow10(n - 1)

\* n as exactly w digits.
RECURSIVE PadStr(_, _)
PadStr(n, w) == IF w = 0 THEN "" ELSE PadStr(n \div 10, w - 1) \o Digits[(n % 10) + 1]

\* x * 10^DecDigits rounded half to even.
Scaled(x) ==
    LET n == x.num * Pow10(DecDigits)
        q == n \div x.den
        r == n % x.den
    IN  IF 2 * r > x.den \/ (2 * r = x.den /\ q % 2 = 1) THEN q + 1 ELSE q

\* Trailing zeros of the fraction digits are dropped, one digit is kept.
RECURSIVE Strip(_, _)
Strip(frac, w) == IF w > 1 /\ frac % 10 = 0 THEN Strip(frac \div 10, w - 1) ELSE <<frac, w>>

\* str(float): "20.0", "17.5", "13.33".
FloatStr(x) ==
    LET s == Scaled(x)
        f == Strip(s % Pow10(DecDigits), DecDigits)
    IN  NatStr(s \div Pow10(DecDigits)) \o "." \o PadStr(f[1], f[2])

\* Decimal(text): the exact decimal the text denotes, stored as a number
\* attribute that carries the text.
Decimal(text) == [N |-> text]

\* int(n), stored as a number attribute.
IntAttr(n) == [N |-> NatStr(n)]

\* Items that carry the number of the invocation that built them.
Item_Stamped(job, row, d) ==
    [customer_id     |-> row.customer_id,
     date            |-> d,
     trip_count_1d   |-> IntAttr(row.trip_count_1d),
     avg_fare_1d     |-> Decimal(FloatStr(row.avg_fare_1d)),
     avg_distance_1d |-> Decimal(FloatStr(row.avg_distance_1d)),
     attempt         |-> IntAttr(runs)]

\* Items dated by the clock at the moment they are built, not by the date
\* main() resolved.
Item_DatedByClock(job, row, d) ==
    IF job = BaseJob
    THEN [customer_id     |-> row.customer_id,
          date            |-> IsoFormat(UtcToday(clock)),
          trip_count_1d   |-> IntAttr(row.trip_count_1d),
          avg_fare_1d     |-> Decimal(FloatStr(row.avg_fare_1d)),
          avg_distance_1d |-> Decimal(FloatStr(row.avg_distance_1d))]
    ELSE [customer_id     |-> row.customer_id,
          date            |-> IsoFormat(UtcToday(clock)),
          trip_count_1d   |-> Decimal(NatStr(row.trip_count_1d)),
          avg_fare_1d     |-> Decimal(FloatStr(row.avg_fare_1d)),
          avg_distance_1d |-> Decimal(FloatStr(row.avg_distance_1d)),
          dataset_size    |-> "medium_1000"]

\* The item main() builds for one row of the result.
Item(job, row, d) ==
    IF job = BaseJob
    THEN [customer_id     |-> row.customer_id,
          date            |-> d,
          trip_count_1d   |-> IntAttr(row.trip_count_1d),
          avg_fare_1d     |-> Decimal(FloatStr(row.avg_fare_1d)),
          avg_distance_1d |-> Decimal(FloatStr(row.avg_distance_1d))]
    ELSE [customer_id     |-> row.customer_id,
          date            |-> d,
          trip_count_1d   |-> Decimal(NatStr(row.trip_count_1d)),
          avg_fare_1d     |-> Decimal(FloatStr(row.avg_fare_1d)),
          avg_distance_1d |-> Decimal(FloatStr(row.avg_distance_1d)),
          dataset_size    |-> "medium_1000"]

\* The list main() hands to upsert_daily_features.
Items(job, rows, d) == [i \in 1..Len(rows) |-> Item(job, rows[i], d)]

(* ------------------------------ storage ------------------------------- *)

\* s3_prefix_features of the configuration.
FeaturesPrefix == "features"

\* The directory of a job's snapshots below the features prefix.
JobDir(job) == IF job = BaseJob THEN FeaturesPrefix ELSE FeaturesPrefix \o "/daily"

JobFile(job) == IF job = BaseJob THEN "features.parquet" ELSE "features_medium.parquet"

\* A key that names the invocation as well as the date.
SnapshotKey_PerRun(job, d) ==
    [dir |-> JobDir(job), partition |-> "date=" \o d,
     file |-> "features-" \o NatStr(runs) \o ".parquet"]

\* The object key of a job's snapshot for a date, as its path segments:
\* {dir}/date={date}/{file}.
SnapshotKey(job, d) ==
    [dir |-> JobDir(job), partition |-> "date=" \o d, file |-> JobFile(job)]

\* The parquet body: the base job writes the query result, the medium job
\* writes it with the date column added. Row order is not row content.
SnapshotBody(job, rows, d) ==
    IF job = BaseJob THEN { rows[i] : i \in 1..Len(rows) }
    ELSE { [customer_id     |-> rows[i].customer_id,
            trip_count_1d   |-> rows[i].trip_count_1d,
            avg_fare_1d     |-> rows[i].avg_fare_1d,
            avg_distance_1d |-> rows[i].avg_distance_1d,
            date            |-> d] : i \in 1..Len(rows) }

\* put_object / upload_file: the object at the key is replaced.
PutObject(bucket, key, body) ==
    { o \in bucket : o.key # key } \cup { [key |-> key, body |-> body] }

\* A table declared without the sort key.
ItemKey_CustomerOnly(it) == <<it.customer_id>>

\* The primary key of the table: partition key customer_id, sort key date.
ItemKey(it) == <<it.customer_id, it.date>>

\* An update that adds the trip count to the stored one (ADD instead of put).
PutItemInto_Accumulate(table, it) ==
    LET old == { x \in table : ItemKey(x) = ItemKey(it) }
    IN  (table \ old) \cup
        { IF old = {} THEN it
          ELSE [it EXCEPT !.trip_count_1d =
                   [N |-> (CHOOSE x \in old : TRUE).trip_count_1d.N \o "+" \o @.N]] }

\* An update that sets the attributes of the item and keeps the other
\* attributes of the stored one (update_item instead of put_item).
PutItemInto_Merge(table, it) ==
    LET old == { x \in table : ItemKey(x) = ItemKey(it) }
    IN  (table \ old) \cup
        { IF old = {} THEN it
          ELSE LET o == CHOOSE x \in old : TRUE
               IN  [f \in DOMAIN o \cup DOMAIN it |-> IF f \in DOMAIN it THEN it[f] ELSE o[f]] }

\* put_item: the item with the same primary key is replaced.
PutItemInto(table, it) ==
    { x \in table : ItemKey(x) # ItemKey(it) } \cup {it}

\* upsert_daily_features(items) run to its end on a table.
RECURSIVE UpsertAll(_, _, _)
UpsertAll(table, items, i) ==
    IF i > Len(items) THEN table
    ELSE UpsertAll(PutItemInto(table, items[i]), items, i + 1)

\* The table rejects an item whose key attribute is NULL.
KeyAccepted(it) == it.customer_id # NULL /\ it.date # NULL

(* ------------------------------ run_job ------------------------------- *)

\* Job files run_job may be given. "main" says what the module's main()
\* does: run a feature job, raise an exception, or nothing when the module
\* defines no main().
Modules ==
    { [path |-> BaseJob, exists |-> TRUE, has_main |-> TRUE, main |-> "features"],
      [path |-> MediumJob, exists |-> TRUE, has_main |-> TRUE, main |-> "features"],
      [path |-> "app/libs/ddb.py", exists |-> TRUE, has_main |-> FALSE, main |-> "none"],
      [path |-> "jobs/missing.py", exists |-> FALSE, has_main |-> FALSE, main |-> "none"],
      [path |-> "jobs/no_work.py", exists |-> TRUE, has_main |-> TRUE, main |-> NoWorkFound],
      [path |-> "jobs/broken.py", exists |-> TRUE, has_main |-> TRUE, main |-> "RuntimeError"],
      [path |-> "jobs/interrupted.py", exists |-> TRUE, has_main |-> TRUE, main |-> "KeyboardInterrupt"] }

NoModule == [path |-> "", exists |-> FALSE, has_main |-> FALSE, main |-> "none"]

\* Classes "except Exception" catches.
ExceptionClasses ==
    { NoWorkFound, "FileNotFoundError", "AttributeError", "RuntimeError",
      "ClientError", "S3UploadFailedError" }

\* A loader that does not check for main().
LoadError_NoMainCheck(m) == IF ~m.exists THEN "FileNotFoundError" ELSE ""

\* What import_module_from_path and the hasattr check raise: "" for nothing.
LoadError(m) ==
    IF ~m.exists THEN "FileNotFoundError"
    ELSE IF ~m.has_main THEN "AttributeError"
    ELSE ""

\* A handler without the NoWorkFound clause: the signal is logged as a
\* failure and raised again.
Handle_NoWorkReraised(exc) ==
    IF exc = "" THEN [logged |-> "succeeded", raised |-> ""]
    ELSE IF exc \in ExceptionClasses THEN [logged |-> "failed", raised |-> exc]
    ELSE [logged |-> "", raised |-> exc]

\* A handler whose "except Exception" logs and does not raise again.
Handle_Swallowed(exc) ==
    IF exc = "" THEN [logged |-> "succeeded", raised |-> ""]
    ELSE IF exc = NoWorkFound THEN [logged |-> "no_work", raised |-> ""]
    ELSE IF exc \in ExceptionClasses THEN [logged |-> "failed", raised |-> ""]
    ELSE [logged |-> "", raised |-> exc]

\* The try/except around module.main(): exc is what main() raised, "" when
\* it returned. The result is the line logged and the exception that leaves
\* run_job ("" for a normal return).
Handle(exc) ==
    IF exc = "" THEN [logged |-> "succeeded", raised |-> ""]
    ELSE IF exc = NoWorkFound THEN [logged |-> "no_work", raised |-> ""]
    ELSE IF exc \in ExceptionClasses THEN [logged |-> "failed", raised |-> exc]
    ELSE [logged |-> "", raised |-> exc]

\* A main() that upserts first and writes the snapshot last.
StageAfter_UpsertFirst(stage) ==
    IF stage = "main" THEN "put_item"
    ELSE IF stage = "put_item" THEN "put_file"
    ELSE "return"

\* The order of the statements of main(): the stage that follows a stage.
StageAfter(stage) ==
    IF stage = "main" THEN "put_file"
    ELSE IF stage = "put_file" THEN "put_item"
    ELSE "return"

\* What the failed store call raises.
StoreError(job, stage) ==
    IF stage = "put_file" /\ job = BaseJob THEN "S3UploadFailedError" ELSE "ClientError"

(* ------------------------------ actions ------------------------------ *)

Running == {"main", "put_file", "put_item", "return"}

Job(p) == module[p].path

\* The items of the table that carry a date.
ItemsOf(table, d) == { it \in table : it.date = d }

\* The objects of the bucket in a job's directory for a date.
ObjectsOf(bucket, job, d) ==
    { o \in bucket : o.key.dir = JobDir(job) /\ o.key.partition = "date=" \o d }

Init ==
    /\ clock = 0
    /\ raw \in RawPartitions
    /\ s3 = {}
    /\ ddb = {}
    /\ runs = 0
    /\ pc = [p \in Procs |-> "idle"]
    /\ module = [p \in Procs |-> NoModule]
    /\ sched = [p \in Procs |-> <<>>]
    /\ date = [p \in Procs |-> ""]
    /\ features = [p \in Procs |-> <<>>]
    /\ done = [p \in Procs |-> 0]
    /\ writes = [p \in Procs |-> <<>>]
    /\ called = [p \in Procs |-> FALSE]
    /\ thrown = [p \in Procs |-> ""]
    /\ logged = [p \in Procs |-> ""]
    /\ raised = [p \in Procs |-> ""]
    /\ completed = {}
    /\ aborted = {}
    /\ last_put = {}

IsFeatureRun(p) == module[p].main = "features"

\* Where an invocation stands with its writes: before the snapshot, between
\* the snapshot and the upserts, after some of the upserts, after all.
AbortPoint(p) ==
    IF ~\E i \in 1..Len(writes[p]) : writes[p][i].store = "s3" THEN
        (IF done[p] = 0 THEN "before_snapshot" ELSE "upserts_without_snapshot")
    ELSE IF done[p] = 0 THEN "after_snapshot"
    ELSE IF done[p] < Len(features[p]) THEN "mid_upsert"
    ELSE "after_upserts"

\* The end of an invocation: run_job logs, and returns or raises exc.
\* A feature run that succeeded is recorded with what it left in the stores.
Finish(p, exc, bucket, table) ==
    /\ pc' = [pc EXCEPT ![p] = "done"]
    /\ thrown' = [thrown EXCEPT ![p] = exc]
    /\ logged' = [logged EXCEPT ![p] = Handle(exc).logged]
    /\ raised' = [raised EXCEPT ![p] = Handle(exc).raised]
    /\ completed' =
          IF IsFeatureRun(p) /\ exc = ""
          THEN completed \cup
               { [job       |-> Job(p),
                  date      |-> date[p],
                  items     |-> ItemsOf(table, date[p]),
                  objects   |-> ObjectsOf(bucket, Job(p), date[p]),
                  nth       |-> 1 + Cardinality({ c \in completed : c.job = Job(p) /\ c.date = date[p] }),
                  recovered |-> \E a \in aborted : a.job = Job(p) /\ a.date = date[p]] }
          ELSE completed
    /\ aborted' =
          IF IsFeatureRun(p) /\ exc # ""
          THEN aborted \cup { [job |-> Job(p), date |-> date[p], at |-> AbortPoint(p)] }
          ELSE aborted

\* main() moves on to its next stage, or returns to run_job.
Proceed(p, next, bucket, table) ==
    IF next = "return"
    THEN Finish(p, "", bucket, table)
    ELSE /\ pc' = [pc EXCEPT ![p] = next]
         /\ UNCHANGED <<thrown, logged, raised, completed, aborted>>

\* run_job(job_path) up to the call of main(): the module is loaded and
\* checked for main(); a missing file or a missing main() raises at once.
RunJob(p, m, st) ==
    /\ pc[p] \notin Running
    /\ runs < MaxRuns
    /\ runs' = runs + 1
    /\ module' = [module EXCEPT ![p] = m]
    /\ sched' = [sched EXCEPT ![p] = st]
    /\ date' = [date EXCEPT ![p] = ""]
    /\ features' = [features EXCEPT ![p] = <<>>]
    /\ done' = [done EXCEPT ![p] = 0]
    /\ writes' = [writes EXCEPT ![p] = <<>>]
    /\ called' = [called EXCEPT ![p] = FALSE]
    /\ thrown' = [thrown EXCEPT ![p] = ""]
    /\ logged' = [logged EXCEPT ![p] = ""]
    /\ raised' = [raised EXCEPT ![p] = LoadError(m)]
    /\ pc' = [pc EXCEPT ![p] = IF LoadError(m) = "" THEN "main" ELSE "done"]
    /\ UNCHANGED <<clock, raw, s3, ddb, completed, aborted, last_put>>

\* main() of a module that is no feature job: it raises, run_job handles it.
MainRaises(p) ==
    /\ pc[p] = "main"
    /\ ~IsFeatureRun(p)
    /\ called' = [called EXCEPT ![p] = TRUE]
    /\ Finish(p, IF module[p].has_main THEN module[p].main ELSE "AttributeError", s3, ddb)
    /\ UNCHANGED <<clock, raw, s3, ddb, runs, module, sched, date, features, done, writes,
                   last_put>>

\* main() of a feature job up to the query result: the date is resolved and
\* the partition aggregated; the engine returns the groups in some order.
MainFeatures(p) ==
    /\ pc[p] = "main"
    /\ IsFeatureRun(p)
    /\ called' = [called EXCEPT ![p] = TRUE]
    /\ date' = [date EXCEPT ![p] = JobDate(Job(p), sched[p], clock)]
    /\ \E order \in Orders(FeatureRows(Job(p), raw)) :
          features' = [features EXCEPT ![p] = order]
    /\ Proceed(p, StageAfter("main"), s3, ddb)
    /\ UNCHANGED <<clock, raw, s3, ddb, runs, module, sched, done, writes, last_put>>

\* put_file / put_bytes: the snapshot is written at the date's key.
PutFile(p) ==
    /\ pc[p] = "put_file"
    /\ LET key == SnapshotKey(Job(p), date[p])
       IN  /\ s3' = PutObject(s3, key, SnapshotBody(Job(p), features[p], date[p]))
           /\ writes' = [writes EXCEPT ![p] = Append(@, [store |-> "s3", key |-> key])]
           /\ last_put' = { w \in last_put : w.key # key } \cup { [key |-> key, by |-> p] }
    /\ Proceed(p, StageAfter("put_file"), s3', ddb)
    /\ UNCHANGED <<clock, raw, ddb, runs, module, sched, date, features, done, called>>

\* One turn of the loop of upsert_daily_features: table.put_item(Item=it).
PutItem(p) ==
    /\ pc[p] = "put_item"
    /\ done[p] < Len(features[p])
    /\ LET it == Items(Job(p), features[p], date[p])[done[p] + 1]
       IN  /\ KeyAccepted(it)
           /\ ddb' = PutItemInto(ddb, it)
           /\ writes' = [writes EXCEPT ![p] = Append(@, [store |-> "ddb", key |-> ItemKey(it)])]
    /\ done' = [done EXCEPT ![p] = @ + 1]
    /\ UNCHANGED <<clock, raw, s3, runs, pc, module, sched, date, features,
                   called, thrown, logged, raised, completed, aborted, last_put>>

\* The loop of upsert_daily_features is over.
UpsertReturns(p) ==
    /\ pc[p] = "put_item"
    /\ done[p] = Len(features[p])
    /\ Proceed(p, StageAfter("put_item"), s3, ddb)
    /\ UNCHANGED <<clock, raw, s3, ddb, runs, module, sched, date, features, done, writes,
                   called, last_put>>

\* A loop that catches the failure of a put_item and goes on with the next
\* item; a failed snapshot write ends the invocation as before.
StoreFails_SkipItem(p) ==
    \/ /\ pc[p] = "put_file"
       /\ Finish(p, "S3UploadFailedError", s3, ddb)
       /\ UNCHANGED <<clock, raw, s3, ddb, runs, module, sched, date, features, done, writes,
                      called, last_put>>
    \/ /\ pc[p] = "put_item"
       /\ done[p] < Len(features[p])
       /\ done' = [done EXCEPT ![p] = @ + 1]
       /\ UNCHANGED <<clock, raw, s3, ddb, runs, pc, module, sched, date, features, writes,
                      called, thrown, logged, raised, completed, aborted, last_put>>

\* A main() that catches the failure of the snapshot write and goes on to
\* the upserts; a failed put_item ends the invocation as before.
StoreFails_SnapshotOptional(p) ==
    \/ /\ pc[p] = "put_file"
       /\ pc' = [pc EXCEPT ![p] = "put_item"]
       /\ UNCHANGED <<clock, raw, s3, ddb, runs, module, sched, date, features, done, writes,
                      called, thrown, logged, raised, completed, aborted, last_put>>
    \/ /\ pc[p] = "put_item"
       /\ done[p] < Len(features[p])
       /\ Finish(p, "ClientError", s3, ddb)
       /\ UNCHANGED <<clock, raw, s3, ddb, runs, module, sched, date, features, done, writes,
                      called, last_put>>

\* A store call fails (the table also rejects a NULL key): the exception
\* leaves main() and reaches the handler of run_job.
StoreFails(p) ==
    /\ \/ pc[p] = "put_file"
       \/ pc[p] = "put_item" /\ done[p] < Len(features[p])
    /\ Finish(p, StoreError(Job(p), pc[p]), s3, ddb)
    /\ UNCHANGED <<clock, raw, s3, ddb, runs, module, sched, date, features, done, writes,
                   called, last_put>>

\* The process is killed while main() of a feature job runs.
Kill(p) ==
    /\ pc[p] \in Running
    /\ IsFeatureRun(p)
    /\ pc' = [pc EXCEPT ![p] = "killed"]
    /\ aborted' = aborted \cup { [job |-> Job(p), date |-> date[p], at |-> AbortPoint(p)] }
    /\ UNCHANGED <<clock, raw, s3, ddb, runs, module, sched, date, features,
                   done, writes, called, thrown, logged, raised, completed, last_put>>

\* Midnight UTC passes.
Tick ==
    /\ clock < MaxTicks
    /\ clock' = clock + 1
    /\ UNCHANGED <<raw, s3, ddb, runs, pc, module, sched, date, features,
                   done, writes, called, thrown, logged, raised, completed, aborted,
                   last_put>>

\* The invocations the scheduler makes: cli() leaves SCHEDULED_TIME empty
\* when it is not set. Every value is tried on the job that reads it, an
\* empty and a valid one on the medium job, the empty one on the others.
Invocations ==
    { a \in [module : Modules, sched : ScheduledTimes] :
        \/ a.module.path = BaseJob
        \/ a.module.path = MediumJob /\ a.sched \in {TsEmpty, TsZ}
        \/ a.sched = TsEmpty }

\* The orchestrator's retry: the invocation that ended is made again, with
\* the same job file and the same SCHEDULED_TIME.
Retry(p, a) ==
    /\ runs > 0 => module[p] = a.module /\ sched[p] = a.sched
    /\ RunJob(p, a.module, a.sched)

\* One invocation at a time, made again when it has ended.
Next ==
    \/ \E a \in Invocations : Retry(1, a)
    \/ MainRaises(1)
    \/ MainFeatures(1)
    \/ PutFile(1)
    \/ PutItem(1)
    \/ UpsertReturns(1)
    \/ StoreFails(1)
    \/ Kill(1)
    \/ Tick

Spec == Init /\ [][Next]_vars

\* The invocations made in parallel: feature jobs, the base job with an
\* empty and the two valid values of SCHEDULED_TIME (an unparseable value
\* resolves as the empty one does), the medium job with the empty one.
ConcInvocations ==
    { a \in Invocations :
        /\ a.module.main = "features"
        /\ a.sched \in {TsEmpty, TsZ, TsDateOnly}
        /\ a.module.path = MediumJob => a.sched = TsEmpty }

\* The first invocation of a process. The processes are interchangeable,
\* so the one numbered lower is the one started first.
Once(p, a) ==
    /\ pc[p] = "idle"
    /\ \A q \in Procs : q < p => pc[q] # "idle"
    /\ RunJob(p, a.module, a.sched)

\* Feature jobs in parallel: each process runs one invocation to its end
\* (a store call may fail; no process is killed).
NextConc ==
    \/ \E p \in Procs, a \in ConcInvocations : Once(p, a)
    \/ \E p \in Procs : MainFeatures(p)
    \/ \E p \in Procs : PutFile(p)
    \/ \E p \in Procs : PutItem(p)
    \/ \E p \in Procs : UpsertReturns(p)
    \/ \E p \in Procs : StoreFails(p)
    \/ Tick

SpecConc == Init /\ [][NextConc]_vars

\* One invocation of a feature job, with every value of SCHEDULED_TIME the
\* job is given, run to its end or to the store call that fails.
NextOneRun ==
    \/ \E a \in Invocations : a.module.main = "features" /\ Once(1, a)
    \/ MainFeatures(1)
    \/ PutFile(1)
    \/ PutItem(1)
    \/ UpsertReturns(1)
    \/ StoreFails(1)
    \/ Tick

SpecOneRun == Init /\ [][NextOneRun]_vars

(* ------------------------- what the invoker sees ---------------------- *)

\* run_job returned normally.
Returned(p) == pc[p] = "done" /\ raised[p] = ""

\* The outcome of an invocation that has ended.
Outcome(p) ==
    IF raised[p] # "" THEN "Failed"
    ELSE IF logged[p] = "no_work" THEN "SucceededNoWork"
    ELSE "Succeeded"

\* The stores written by the invocation of p so far.
Wrote(p, store) == \E i \in 1..Len(writes[p]) : writes[p][i].store = store

(* ------------------------------ claims -------------------------------- *)

\* C1: a feature run on a partition that yields no feature rows writes
\* nothing to either store and, when it returns, has the outcome
\* SucceededNoWork.
C1_EmptyPartitionIsNoWork ==
    \A p \in Procs :
        (IsFeatureRun(p) /\ called[p] /\ FeatureRows(Job(p), raw) = {}) =>
            /\ writes[p] = <<>>
            /\ Returned(p) => Outcome(p) = "SucceededNoWork"

\* C2: when main() raises NoWorkFound, run_job returns normally, as it does
\* for a success, and the outcome is SucceededNoWork.
C2_NoWorkIsCaught ==
    \A p \in Procs :
        (pc[p] = "done" /\ thrown[p] = NoWorkFound) =>
            /\ raised[p] = ""
            /\ logged[p] = "no_work"
            /\ Outcome(p) = "SucceededNoWork"

C2_Witness ==
    \E p \in Procs : pc[p] = "done" /\ called[p] /\ thrown[p] = NoWorkFound

\* C3: every exception main() raises other than NoWorkFound leaves run_job
\* as the same exception (those caught by "except Exception" logged as a
\* failure first); a normal return follows only a normal return of main()
\* or NoWorkFound.
C3_FailuresPropagate ==
    \A p \in Procs :
        pc[p] = "done" =>
            /\ thrown[p] \notin {"", NoWorkFound} =>
                  /\ raised[p] = thrown[p]
                  /\ Outcome(p) = "Failed"
                  /\ thrown[p] \in ExceptionClasses => logged[p] = "failed"
            /\ Returned(p) => thrown[p] \in {"", NoWorkFound}

C3_Witness ==
    \E p \in Procs :
        /\ pc[p] = "done"
        /\ IsFeatureRun(p)
        /\ thrown[p] = "ClientError"
        /\ raised[p] = "ClientError"

\* C4: a job file that defines no main() makes run_job raise before main()
\* is called and before any write to the bucket or the table.
C4_MissingMainFailsFast ==
    \A p \in Procs :
        (pc[p] # "idle" /\ module[p].exists /\ ~module[p].has_main) =>
            /\ pc[p] = "done"
            /\ raised[p] = "AttributeError"
            /\ ~called[p]
            /\ logged[p] = ""
            /\ writes[p] = <<>>
            /\ s3 = {} /\ ddb = {}

C4_Witness ==
    \E p \in Procs :
        pc[p] = "done" /\ module[p].exists /\ ~module[p].has_main /\ raised[p] = "AttributeError"

\* C5: an invocation that has applied an upsert has written the snapshot of
\* its date before it, and the object is in the bucket.
C5_SnapshotBeforeUpsert ==
    \A p \in Procs :
        \A i \in 1..Len(writes[p]) :
            writes[p][i].store = "ddb" =>
                /\ \E j \in 1..(i - 1) :
                      writes[p][j] = [store |-> "s3", key |-> SnapshotKey(Job(p), date[p])]
                /\ [key  |-> SnapshotKey(Job(p), date[p]),
                    body |-> SnapshotBody(Job(p), features[p], date[p])] \in s3

C5_Witness ==
    \E p \in Procs : pc[p] = "put_item" /\ done[p] > 0 /\ Wrote(p, "ddb")

\* What one uninterrupted run of a job for a date leaves in empty stores.
CleanRun(job, d) ==
    LET rows == CHOOSE o \in Orders(FeatureRows(job, raw)) : TRUE
    IN  [items   |-> UpsertAll({}, Items(job, rows, d), 1),
         objects |-> PutObject({}, SnapshotKey(job, d), SnapshotBody(job, rows, d))]

\* C6: the items the table holds for a date after a complete run of a job
\* are the same after every complete run of that job for that date, one
\* item for each key and one for each feature row.
C6_IdempotentUpsert ==
    \A e \in completed :
        /\ \A f \in completed :
              (f.job = e.job /\ f.date = e.date) => f.items = e.items
        /\ \A x, y \in e.items : ItemKey(x) = ItemKey(y) => x = y
        /\ Cardinality(e.items) = Cardinality(FeatureRows(e.job, raw))

C6_Witness ==
    \E e \in completed : e.nth = 2 /\ Cardinality(e.items) = 2

\* C7: after every complete run of a job for a date the bucket holds one
\* object in the job's directory for that date, at the same key and with
\* the same rows as after the first run.
C7_IdempotentSnapshot ==
    \A e \in completed :
        /\ Cardinality(e.objects) = 1
        /\ \A f \in completed :
              (f.job = e.job /\ f.date = e.date) => f.objects = e.objects

C7_Witness ==
    \E e \in completed : e.nth = 2 /\ \E o \in e.objects : o.body # {}

\* C8: a complete run that follows a killed or failed run of the same job
\* for the same date leaves, for that date, the items and the object that
\* one uninterrupted run leaves.
C8_RetryRepairs ==
    \A e \in completed :
        e.recovered =>
            /\ e.items = CleanRun(e.job, e.date).items
            /\ e.objects = CleanRun(e.job, e.date).objects

C8_Witness ==
    \E e \in completed, a \in aborted :
        /\ e.recovered
        /\ a.job = e.job /\ a.date = e.date
        /\ a.at = "mid_upsert"

\* C9: the date of a feature run is the date of SCHEDULED_TIME when that
\* parses, and a current UTC date when it is empty or does not parse.
C9_DateFromSchedule ==
    \A p \in Procs :
        (IsFeatureRun(p) /\ called[p]) =>
            LET parsed == IF sched[p] # <<>> THEN FromIsoFormat(ReplaceZ(sched[p])) ELSE None
            IN  IF parsed # None
                THEN date[p] = IsoFormat(parsed)
                ELSE \E k \in 0..clock : date[p] = IsoFormat(UtcToday(k))

\* C10: two feature runs for different dates that both ran to their end,
\* in any interleaving, wrote different keys, and the stores are what the
\* two runs leave when one runs after the other, in either order.
C10_DifferentDatesIndependent ==
    \A p, q \in Procs :
        (/\ p # q
         /\ Returned(p) /\ Returned(q)
         /\ IsFeatureRun(p) /\ IsFeatureRun(q)
         /\ date[p] # date[q]) =>
            LET Snap(b, r) == PutObject(b, SnapshotKey(Job(r), date[r]),
                                        SnapshotBody(Job(r), features[r], date[r]))
                Ups(t, r)  == UpsertAll(t, Items(Job(r), features[r], date[r]), 1)
            IN  /\ \A i \in 1..Len(writes[p]), j \in 1..Len(writes[q]) :
                      writes[p][i].store = writes[q][j].store =>
                          writes[p][i].key # writes[q][j].key
                /\ s3 = Snap(Snap({}, p), q)
                /\ s3 = Snap(Snap({}, q), p)
                /\ ddb = Ups(Ups({}, p), q)
                /\ ddb = Ups(Ups({}, q), p)

C10_Witness ==
    \E p, q \in Procs :
        /\ p # q
        /\ Returned(p) /\ Returned(q)
        /\ IsFeatureRun(p) /\ IsFeatureRun(q)
        /\ date[p] # date[q]
        /\ Job(p) = Job(q)
        /\ done[p] = 2 /\ done[q] = 2

\* The items an invocation hands to upsert_daily_features, as a set.
ItemSet(p) ==
    { Items(Job(p), features[p], date[p])[i] : i \in 1..Len(features[p]) }

\* C11: two concurrent feature runs for the same date that both complete
\* converge: the object at each run's snapshot key is the snapshot of the
\* run whose snapshot write came last, every item of the table for the date
\* is an item one of the two runs wrote, one item per key, and every key
\* either run produced is in the table.
C11_ConcurrentSameDateConverges ==
    \A p, q \in Procs :
        (/\ p # q
         /\ IsFeatureRun(p) /\ Returned(p)
         /\ IsFeatureRun(q) /\ Returned(q)
         /\ date[p] = date[q]) =>
            LET d     == date[p]
                key   == SnapshotKey(Job(p), d)
                wrote == ItemSet(p) \cup ItemSet(q)
                kept  == ItemsOf(ddb, d)
            IN  /\ \E w \in last_put :
                      /\ w.key = key
                      /\ { o \in s3 : o.key = key } =
                             { [key  |-> key,
                                body |-> SnapshotBody(Job(w.by), features[w.by], date[w.by])] }
                /\ kept \subseteq wrote
                /\ { ItemKey(it) : it \in kept } = { ItemKey(it) : it \in wrote }
                /\ Cardinality(kept) = Cardinality({ ItemKey(it) : it \in kept })

\* Both jobs ran for the same date side by side, both completed, and the
\* table holds an item of each of them.
C11_Witness ==
    /\ Returned(1) /\ Returned(2)
    /\ IsFeatureRun(1) /\ IsFeatureRun(2)
    /\ date[1] = date[2]
    /\ Job(1) # Job(2)
    /\ ItemsOf(ddb, date[1]) \cap ItemSet(1) # {}
    /\ ItemsOf(ddb, date[1]) \cap ItemSet(2) # {}

\* The partition without the rows whose VendorID is NULL.
NonNullRows(rows) == SelectSeq(rows, LAMBDA r : r.VendorID # None)

\* C12: rows with a NULL entity key never produce a feature record: no row
\* of a snapshot and no item of the table has a NULL customer_id, and the
\* rows a feature run computes are those it computes from the partition
\* with the NULL-key rows removed.
C12_NullKeysExcluded ==
    /\ \A o \in s3 : \A r \in o.body : r.customer_id # NULL
    /\ \A it \in ddb : it.customer_id # NULL
    /\ \A p \in Procs :
          (IsFeatureRun(p) /\ called[p]) =>
              { features[p][i] : i \in 1..Len(features[p]) } =
                  FeatureRows(Job(p), NonNullRows(raw))

\* The exceptions of the store calls.
StoreErrors == { StoreError(job, stage) : job \in {BaseJob, MediumJob},
                                          stage \in {"put_file", "put_item"} }

\* The writes of the invocation of p to one store, in order.
WritesTo(p, store) == SelectSeq(writes[p], LAMBDA w : w.store = store)

\* C13: an invocation makes each store write at most once and none after a
\* failed one: at most one snapshot write, the upserts are those of the
\* first done[p] items, one each and in order, and when a store call has
\* failed the invocation has ended, with that exception raised to the
\* caller (Failed) and with a write of the run still unmade.
C13_NoInternalRetry ==
    \A p \in Procs :
        (IsFeatureRun(p) /\ called[p]) =>
            LET item(i) == Item(Job(p), features[p][i], date[p])
                ups     == WritesTo(p, "ddb")
            IN  /\ Len(WritesTo(p, "s3")) <= 1
                /\ done[p] <= Len(features[p])
                /\ ups = [i \in 1..done[p] |-> [store |-> "ddb", key |-> ItemKey(item(i))]]
                /\ \A i, j \in 1..Len(ups) : ups[i].key = ups[j].key => i = j
                /\ thrown[p] \in StoreErrors =>
                      /\ pc[p] = "done"
                      /\ raised[p] = thrown[p]
                      /\ Outcome(p) = "Failed"
                      /\ Len(writes[p]) < 1 + Len(features[p])

\* The second of two upserts failed after the snapshot and the first upsert
\* were made: the invocation ended there.
C13_Witness ==
    /\ IsFeatureRun(1)
    /\ pc[1] = "done"
    /\ thrown[1] = "ClientError"
    /\ Len(features[1]) = 2
    /\ done[1] = 1
    /\ Len(writes[1]) = 2

\* C14: in the output of one run the pair (customer_id, date) is unique: no
\* two rows of the result, no two rows of the snapshot and no two items
\* share a customer_id, the snapshot in the bucket has one row per result
\* row, and a run that returned upserted as many distinct keys as the
\* query gave rows.
C14_KeyUniqueInRun ==
    \A p \in Procs :
        (IsFeatureRun(p) /\ called[p]) =>
            LET n       == Len(features[p])
                item(i) == Item(Job(p), features[p][i], date[p])
                body    == SnapshotBody(Job(p), features[p], date[p])
                ups     == WritesTo(p, "ddb")
            IN  /\ Cardinality({ features[p][i].customer_id : i \in 1..n }) = n
                /\ Cardinality({ ItemKey(item(i)) : i \in 1..n }) = n
                /\ Cardinality({ r.customer_id : r \in body }) = n
                /\ Cardinality(body) = n
                /\ Wrote(p, "s3") =>
                      \A o \in s3 :
                          o.key = SnapshotKey(Job(p), date[p]) => Cardinality(o.body) = n
                /\ Returned(p) =>
                      Cardinality({ ups[i].key : i \in 1..Len(ups) }) = n

\* A run that computed two feature rows returned after its two upserts.
C14_Witness ==
    /\ IsFeatureRun(1)
    /\ Returned(1)
    /\ Len(features[1]) = 2
    /\ Cardinality({ it \in ddb : it.date = date[1] }) = 2

\* The sum of the trip counts of the first n rows of a result.
RECURSIVE SumCounts(_, _)
SumCounts(rows, n) == IF n = 0 THEN 0 ELSE rows[n].trip_count_1d + SumCounts(rows, n - 1)

\* Three trips of vendor 1 and two of vendor 2.
ExampleRows ==
    [i \in 1..5 |-> [VendorID      |-> IF i <= 3 THEN <<1>> ELSE <<2>>,
                     fare_amount   |-> 10 + i,
                     total_amount  |-> 12 + i,
                     trip_distance |-> i]]

\* C15: the result of the base job's query has one row for each distinct
\* non-NULL VendorID of the partition and for no other key; the trip count
\* of a row is the number of partition rows with that VendorID, at least
\* 1, and is the count its item carries; the counts sum to the number of
\* rows with a non-NULL VendorID. Three rows of vendor 1 and two of vendor
\* 2 give the counts 3 and 2.
C15_TripCountPerKey ==
    /\ \A p \in Procs :
          (Job(p) = BaseJob /\ called[p]) =>
              LET rows     == features[p]
                  keyed    == { i \in 1..Len(raw) : raw[i].VendorID # None }
                  keys     == { CastVarchar(raw[i].VendorID) : i \in keyed }
                  count(k) == Cardinality({ i \in keyed : CastVarchar(raw[i].VendorID) = k })
                  item(i)  == Item(BaseJob, rows[i], date[p])
              IN  /\ { rows[i].customer_id : i \in 1..Len(rows) } = keys
                  /\ Len(rows) = Cardinality(keys)
                  /\ \A i \in 1..Len(rows) :
                        /\ rows[i].trip_count_1d = count(rows[i].customer_id)
                        /\ rows[i].trip_count_1d >= 1
                        /\ item(i).trip_count_1d = IntAttr(count(rows[i].customer_id))
                  /\ SumCounts(rows, Len(rows)) = Cardinality(keyed)
    /\ { [customer_id |-> r.customer_id, trip_count_1d |-> r.trip_count_1d] :
            r \in FeatureRows(BaseJob, ExampleRows) } =
          { [customer_id |-> "1", trip_count_1d |-> 3],
            [customer_id |-> "2", trip_count_1d |-> 2] }

\* The base job aggregated a partition of a NULL-key row and a keyed row
\* into one record.
C15_Witness ==
    /\ Job(1) = BaseJob
    /\ called[1]
    /\ Len(raw) = 2
    /\ raw[1].VendorID = None
    /\ raw[2].VendorID # None
    /\ Len(features[1]) = 1
    /\ features[1][1].trip_count_1d = 1

\* C16: an invocation uses one date, the one main() resolved at its start:
\* the partition of the key of its snapshot write and the sort key of each
\* of its upserts carry that date, whatever the clock has come to since.
C16_OneDatePerRun ==
    \A p \in Procs :
        (IsFeatureRun(p) /\ called[p]) =>
            /\ date[p] # ""
            /\ \A i \in 1..Len(WritesTo(p, "s3")) :
                  WritesTo(p, "s3")[i].key.partition = "date=" \o date[p]
            /\ \A i \in 1..Len(WritesTo(p, "ddb")) :
                  WritesTo(p, "ddb")[i].key[2] = date[p]

\* Midnight passed while a run dated by the clock was between its first
\* and its second upsert.
C16_Witness ==
    /\ IsFeatureRun(1)
    /\ sched[1] = TsEmpty
    /\ pc[1] = "put_item"
    /\ Len(features[1]) = 2
    /\ done[1] = 1
    /\ Wrote(1, "s3")
    /\ clock = 1
    /\ date[1] = IsoFormat(UtcToday(0))

\* C17: a feature run that ended without its snapshot written made no
\* upsert: its exception reached the caller (Failed), it wrote nothing to
\* the table, and the table of a first invocation is as it was, empty.
C17_SnapshotFailureSkipsUpserts ==
    \A p \in Procs :
        (/\ IsFeatureRun(p)
         /\ pc[p] = "done"
         /\ called[p]
         /\ ~Wrote(p, "s3")) =>
            /\ thrown[p] = StoreError(Job(p), "put_file")
            /\ raised[p] = thrown[p]
            /\ Outcome(p) = "Failed"
            /\ done[p] = 0
            /\ writes[p] = <<>>
            /\ runs = 1 => ddb = {}

\* The snapshot write of the first invocation failed on a partition that
\* gave feature rows to upsert.
C17_Witness ==
    /\ IsFeatureRun(1)
    /\ pc[1] = "done"
    /\ runs = 1
    /\ thrown[1] \in {"S3UploadFailedError", "ClientError"}
    /\ ~Wrote(1, "s3")
    /\ Len(features[1]) > 0
    /\ ddb = {}

====
